---- MODULE Spec2Model ----
(***************************************************************************)
(* Provider transaction synchronization engine of gochippr/backend:        *)
(* business/plaid_sync/service.py (sync_item, sync_all_items_for_user)     *)
(* over the repositories database/supabase/{account, transaction,          *)
(* plaid_item_sync_state}.py.                                              *)
(*                                                                         *)
(* The committed store is db; a unit of work runs on conn, a private copy  *)
(* taken when the connection is opened, which commit() publishes and       *)
(* rollback() discards.  One sync_all_items_for_user call runs at a time.  *)
(***************************************************************************)
EXTENDS Integers, Sequences, FiniteSets, TLC

\* ------------------------------------------------------------------ bounds
\* calls of sync_all_items_for_user in one behaviour
MaxSyncs == 2
\* delta pages the provider chains with has_more = TRUE for one invocation
MaxPages == 2
\* largest magnitude of the signed amounts the mapper is applied to
MaxAmount == 3

\* ------------------------------------------------------------ vocabulary
Null == "null"

\* the user the sync runs for, and another user of the same database
SyncUser == "u1"
OtherUser == "u2"

\* ItemRow(id, user_id, item_id): the items a user may have linked
Item1 == [id |-> "i1", user_id |-> SyncUser, item_id |-> "ext1"]
Item2 == [id |-> "i2", user_id |-> SyncUser, item_id |-> "ext2"]
Item3 == [id |-> "i3", user_id |-> SyncUser, item_id |-> "ext3"]
Item4 == [id |-> "i4", user_id |-> SyncUser, item_id |-> "ext4"]

ItemIds == {"i1", "i2", "i3", "i4"}

\* provider cursors (opaque strings)
Cursors == {"c1", "c2"}

\* external transaction ids: P is the pending predecessor of the posted Q
PendingId == "P"
PostedId == "Q"

\* ------------------------------------------------------------- strings
\* A string the code inspects is the sequence of its characters.
Lower == <<"a", "b", "c", "d", "e", "f", "g", "h", "i", "j", "k", "l", "m",
           "n", "o", "p", "q", "r", "s", "t", "u", "v", "w", "x", "y", "z">>
Upper == <<"A", "B", "C", "D", "E", "F", "G", "H", "I", "J", "K", "L", "M",
           "N", "O", "P", "Q", "R", "S", "T", "U", "V", "W", "X", "Y", "Z">>

\* str.upper with no letter changed
str_upper_identity(str) == str

\* str.upper
str_upper(str) ==
    [i \in 1..Len(str) |->
        IF \E k \in 1..Len(Lower) : Lower[k] = str[i]
        THEN Upper[CHOOSE k \in 1..Len(Lower) : Lower[k] = str[i]]
        ELSE str[i]]

\* `pat in str`
str_contains(str, pat) ==
    \E i \in 0..(Len(str) - Len(pat)) : SubSeq(str, i + 1, i + Len(pat)) = pat

INCOME == <<"I", "N", "C", "O", "M", "E">>

\* ------------------------------------------------- provider-side records
\* A provider transaction: transaction_id, pending_transaction_id, account_id,
\* signed amount, personal_finance_category.primary, pending.
Tx(id, pid, acct, amount, pfc, pending) ==
    [transaction_id |-> id, pending_transaction_id |-> pid, account_id |-> acct,
     amount |-> amount, pfc |-> pfc, pending |-> pending]

rP == Tx(PendingId, Null, "a1", 12, Null, TRUE)
rQ == Tx(PostedId, PendingId, "a1", 12, Null, FALSE)
\* a record on an account of another user: never resolves for SyncUser
rU == Tx("X", Null, "ax", 7, Null, FALSE)
\* a modified report of Q (a refund: inflow)
mQ == Tx(PostedId, Null, "a1", -5, Null, FALSE)
\* the only transaction of the second item
rY == Tx("Y", Null, "a3", 0, INCOME, FALSE)
\* the transactions of the third item: A and B are unrelated, mB is a modified
\* report of B, D is the posted counterpart of the pending C; amount 0 leaves
\* the classification to the category hint
rA == Tx("A", Null, "a4", 0, <<"R", "e", "n", "t", "_", "I", "n", "c", "o", "m", "e">>, FALSE)
rB == Tx("B", Null, "a5", 0, <<"T", "R", "A", "N", "S", "F", "E", "R", "_", "I", "N">>, FALSE)
mB == Tx("B", Null, "a5", 4, INCOME, FALSE)
rC == Tx("C", Null, "a4", -3, Null, TRUE)
rD == Tx("D", "C", "a4", 0, <<"i", "n", "c", "o", "m", "e">>, FALSE)
\* the record of the fourth item, on the user's own account: it carries the
\* external id of the other user's transaction X
rX == Tx("X", Null, "a4", 2, Null, FALSE)

\* get_accounts: the account snapshot of an item (external account ids)
Snapshot(item_id) ==
    IF item_id = "ext1" THEN <<"a1", "a2">>
    ELSE IF item_id = "ext2" THEN <<"a3", "a1">>
    ELSE <<"a4", "a5">>

Body(a, m, r) == [added |-> a, modified |-> m, removed |-> r]

\* the delta page bodies the provider may report for an item, in any order
\* and any number of times (at-least-once, duplicated, reordered)
PageBodies(item_id) ==
    IF item_id = "ext1"
    THEN { Body(<<rP>>, <<>>, <<>>),
           Body(<<rQ>>, <<>>, <<>>),
           Body(<<rP, rQ>>, <<>>, <<>>),
           Body(<<rU>>, <<mQ>>, <<>>),
           Body(<<>>, <<>>, <<PendingId>>),
           Body(<<>>, <<>>, <<PostedId, "X">>),
           Body(<<rP>>, <<mQ>>, <<PostedId>>) }
    ELSE IF item_id = "ext2"
    THEN { Body(<<rY>>, <<>>, <<>>),
           Body(<<>>, <<>>, <<"Y">>) }
    ELSE IF item_id = "ext3"
    THEN { Body(<<rA, rB>>, <<>>, <<>>),
           Body(<<>>, <<mB>>, <<"C">>),
           Body(<<rC>>, <<>>, <<>>),
           Body(<<rD>>, <<>>, <<>>) }
    ELSE { Body(<<>>, <<rX>>, <<>>),
           Body(<<rX>>, <<>>, <<>>) }

\* ------------------------------------------------------------ field mapper
Abs(n) == IF n < 0 THEN -n ELSE n

\* mappers._infer_tx_type; `if personal_finance_primary:` is false for None and
\* for the empty string
infer_tx_type(amount, pfc) ==
    IF amount < 0 THEN "credit"
    ELSE IF amount > 0 THEN "debit"
    ELSE IF pfc # Null /\ pfc # <<>> /\ str_contains(str_upper(pfc), INCOME) THEN "credit"
    ELSE "debit"

\* mappers.map_plaid_transaction_to_db_fields
map_plaid_transaction_to_db_fields(account_id, t, owner) ==
    [account_id |-> account_id,
     external_txn_id |-> t.transaction_id,
     amount |-> Abs(t.amount),
     type |-> infer_tx_type(t.amount, t.pfc),
     pending |-> t.pending,
     original_payer_user_id |-> owner]

\* ------------------------------------------------------------------ store
\* accounts: rows [id, user_id, plaid_item_id, plaid_account_id]
\* txns:     rows [id, account_id, external_txn_id, amount, type, pending,
\*                 original_payer_user_id, updated_at, deleted_at];
\*           deleted_at 0 is NULL
\* Instants are kept as the transaction that reads them sees them: Earlier is
\* any instant before the transaction began, Now its own CURRENT_TIMESTAMP.
\* sync:     rows [id, plaid_item_id, transactions_cursor, accounts_last_synced_at]
\*           of plaid_item_sync_state; accounts_last_synced_at 0 is NULL

NoConn == [open |-> FALSE]

\* an instant before the running transaction began
Earlier == 1

\* CURRENT_TIMESTAMP of the running transaction: later than every timestamp a
\* committed transaction has written
Now == Earlier + 1

\* get_connection: the view of a new transaction, and its timestamp
Open(store) ==
    [open |-> TRUE, accounts |-> store.accounts, txns |-> store.txns, sync |-> store.sync,
     now |-> Now]

\* the instants a transaction wrote, as the transactions after it see them
Aged(txns) ==
    { [r EXCEPT !.updated_at = IF @ = 0 THEN 0 ELSE Earlier,
                !.deleted_at = IF @ = 0 THEN 0 ELSE Earlier] : r \in txns }

\* commit: what the transaction leaves in the store
Store(c) == [accounts |-> c.accounts, txns |-> Aged(c.txns), sync |-> c.sync]

\* the database before the first sync: the other user already has an account
\* "ax" holding one transaction "X"
InitialStore ==
    [accounts |-> { [id |-> 1, user_id |-> OtherUser, plaid_item_id |-> "i9",
                     plaid_account_id |-> "ax"] },
     txns |-> { [id |-> 1, account_id |-> 1, external_txn_id |-> "X", amount |-> 7,
                 type |-> "debit", pending |-> FALSE,
                 original_payer_user_id |-> OtherUser, updated_at |-> Earlier,
                 deleted_at |-> 0] },
     sync |-> {}]

NextId(rows) == Cardinality(rows) + 1

\* the plaid_item_sync_state rows of an item
SyncRows(c, item) == { s \in c.sync : s.plaid_item_id = item }

\* get_or_create_sync_state as a plain INSERT on a table without the unique
\* constraint on plaid_item_id
get_or_create_sync_state_plain_insert(c, item) ==
    [c EXCEPT !.sync = c.sync \cup
        { [id |-> NextId(c.sync), plaid_item_id |-> item, transactions_cursor |-> Null,
           accounts_last_synced_at |-> 0] }]

\* plaid_item_sync_state.get_or_create_sync_state:
\* INSERT .. ON CONFLICT (plaid_item_id) DO UPDATE SET updated_at = CURRENT_TIMESTAMP
get_or_create_sync_state(c, item) ==
    IF SyncRows(c, item) # {} THEN c
    ELSE [c EXCEPT !.sync = c.sync \cup
            { [id |-> NextId(c.sync), plaid_item_id |-> item, transactions_cursor |-> Null,
               accounts_last_synced_at |-> 0] }]

\* the row get_or_create_sync_state returns (RETURNING ..), once it has run
ReturnedSyncState(c, item) == CHOOSE s \in SyncRows(c, item) : TRUE

\* plaid_item_sync_state.update_accounts_last_synced_at
update_accounts_last_synced_at(c, item, now) ==
    [c EXCEPT !.sync = { IF s.plaid_item_id = item
                         THEN [s EXCEPT !.accounts_last_synced_at = now]
                         ELSE s : s \in c.sync }]

\* update_sync_cursor with a WHERE clause that matches no row
update_sync_cursor_no_match(c, item, cursor) == c

\* plaid_item_sync_state.update_sync_cursor
update_sync_cursor(c, item, cursor) ==
    [c EXCEPT !.sync = { IF s.plaid_item_id = item
                         THEN [s EXCEPT !.transactions_cursor = cursor]
                         ELSE s : s \in c.sync }]

\* account.upsert_plaid_account: INSERT .. ON CONFLICT (plaid_account_id) DO UPDATE
upsert_plaid_account(c, user, item, ext) ==
    IF \E a \in c.accounts : a.plaid_account_id = ext
    THEN [c EXCEPT !.accounts =
            { IF a.plaid_account_id = ext
              THEN [a EXCEPT !.user_id = user, !.plaid_item_id = item]
              ELSE a : a \in c.accounts }]
    ELSE [c EXCEPT !.accounts = c.accounts \cup
            { [id |-> NextId(c.accounts), user_id |-> user, plaid_item_id |-> item,
               plaid_account_id |-> ext] }]

\* account.get_account_id_by_plaid_account_id: 0 stands for None
get_account_id_by_plaid_account_id(c, user, item, ext) ==
    LET hit == { a \in c.accounts : a.user_id = user /\ a.plaid_item_id = item
                                      /\ a.plaid_account_id = ext }
    IN IF hit = {} THEN 0 ELSE (CHOOSE a \in hit : TRUE).id

RowsByExt(txns, ext) == { r \in txns : r.external_txn_id = ext }

\* upsert_transaction_added as a plain INSERT on a table without the unique index
upsert_transaction_added_plain_insert(txns, data, now) ==
    txns \cup
    { [id |-> NextId(txns), account_id |-> data.account_id,
       external_txn_id |-> data.external_txn_id, amount |-> data.amount,
       type |-> data.type, pending |-> data.pending,
       original_payer_user_id |-> data.original_payer_user_id,
       updated_at |-> now, deleted_at |-> 0] }

\* transaction.upsert_transaction_added:
\* INSERT .. ON CONFLICT (external_txn_id) DO UPDATE .. deleted_at = NULL
upsert_transaction_added(txns, data, now) ==
    IF RowsByExt(txns, data.external_txn_id) # {}
    THEN { IF r.external_txn_id = data.external_txn_id
           THEN [r EXCEPT !.account_id = data.account_id, !.amount = data.amount,
                          !.type = data.type, !.pending = data.pending,
                          !.original_payer_user_id = data.original_payer_user_id,
                          !.updated_at = now, !.deleted_at = 0]
           ELSE r : r \in txns }
    ELSE txns \cup
         { [id |-> NextId(txns), account_id |-> data.account_id,
            external_txn_id |-> data.external_txn_id, amount |-> data.amount,
            type |-> data.type, pending |-> data.pending,
            original_payer_user_id |-> data.original_payer_user_id,
            updated_at |-> now, deleted_at |-> 0] }

\* apply_transaction_modified as an upsert: a row is inserted when none matches
apply_transaction_modified_upserts(txns, data, now) ==
    IF RowsByExt(txns, data.external_txn_id) = {}
    THEN txns \cup
         { [id |-> NextId(txns), account_id |-> data.account_id,
            external_txn_id |-> data.external_txn_id, amount |-> data.amount,
            type |-> data.type, pending |-> data.pending,
            original_payer_user_id |-> data.original_payer_user_id,
            updated_at |-> now, deleted_at |-> 0] }
    ELSE { IF r.external_txn_id = data.external_txn_id
           THEN [r EXCEPT !.amount = data.amount, !.type = data.type,
                          !.pending = data.pending, !.updated_at = now]
           ELSE r : r \in txns }

\* transaction.apply_transaction_modified: UPDATE .. WHERE external_txn_id = ..
apply_transaction_modified(txns, data, now) ==
    { IF r.external_txn_id = data.external_txn_id
      THEN [r EXCEPT !.amount = data.amount, !.type = data.type, !.pending = data.pending,
                     !.updated_at = now]
      ELSE r : r \in txns }

\* apply_transaction_removed without the join to the user's accounts
apply_transaction_removed_any_owner(c, user, ids) ==
    { IF r.external_txn_id \in ids
      THEN [r EXCEPT !.deleted_at = IF r.deleted_at # 0 THEN r.deleted_at ELSE c.now,
                     !.updated_at = c.now]
      ELSE r : r \in c.txns }

\* transaction.apply_transaction_removed: soft delete, joined to the user's
\* accounts: SET deleted_at = COALESCE(t.deleted_at, CURRENT_TIMESTAMP),
\* updated_at = CURRENT_TIMESTAMP
apply_transaction_removed(c, user, ids) ==
    { IF /\ r.external_txn_id \in ids
         /\ \E a \in c.accounts : a.id = r.account_id /\ a.user_id = user
      THEN [r EXCEPT !.deleted_at = IF r.deleted_at # 0 THEN r.deleted_at ELSE c.now,
                     !.updated_at = c.now]
      ELSE r : r \in c.txns }

\* transaction.relink_pending_to_posted: UPDATE .. SET external_txn_id = posted
\* WHERE external_txn_id = pending.  The unique index that ON CONFLICT
\* (external_txn_id) rests on rejects the update when another row already
\* holds the posted id: ok = FALSE is the IntegrityError psycopg2 raises.
relink_pending_to_posted(txns, pending_id, posted_id, data, now) ==
    LET hit == RowsByExt(txns, pending_id)
        clash == { r \in txns : r.external_txn_id = posted_id /\ r \notin hit }
    IN IF hit = {} THEN [ok |-> TRUE, relinked |-> FALSE, txns |-> txns]
       ELSE IF clash # {} THEN [ok |-> FALSE, relinked |-> FALSE, txns |-> txns]
       ELSE [ok |-> TRUE, relinked |-> TRUE,
             txns |-> { IF r \in hit
                        THEN [r EXCEPT !.external_txn_id = posted_id,
                                       !.amount = data.amount, !.type = data.type,
                                       !.pending = FALSE, !.updated_at = now]
                        ELSE r : r \in txns }]

\* AddedRecord without the `if not account_id: continue` of lines 156-158
AddedRecord_no_skip(c, user, item, t) ==
    LET account_id == get_account_id_by_plaid_account_id(c, user, item, t.account_id)
        pending_id == t.pending_transaction_id
        posted_id == t.transaction_id
        tx_data == map_plaid_transaction_to_db_fields(account_id, t, user)
        rel == relink_pending_to_posted(c.txns, pending_id, posted_id, tx_data, c.now)
    IN IF pending_id # Null /\ posted_id # Null /\ ~rel.ok
       THEN [ok |-> FALSE, kind |-> "raised", txns |-> c.txns]
       ELSE IF pending_id # Null /\ posted_id # Null /\ rel.relinked
       THEN [ok |-> TRUE, kind |-> "relinked", txns |-> rel.txns]
       ELSE [ok |-> TRUE, kind |-> "added",
             txns |-> upsert_transaction_added(c.txns, tx_data, c.now)]

\* service.sync_item, the body of `for t in added`: resolve the account, relink
\* or upsert.  kind: "skipped" (account not found), "relinked" (counted in
\* tx_modified), "added" (counted in tx_added); ok = FALSE when the statement
\* raised.
AddedRecord(c, user, item, t) ==
    LET account_id == get_account_id_by_plaid_account_id(c, user, item, t.account_id)
        pending_id == t.pending_transaction_id
        posted_id == t.transaction_id
        tx_data == map_plaid_transaction_to_db_fields(account_id, t, user)
        rel == relink_pending_to_posted(c.txns, pending_id, posted_id, tx_data, c.now)
    IN IF account_id = 0
       THEN [ok |-> TRUE, kind |-> "skipped", txns |-> c.txns]
       ELSE IF pending_id # Null /\ posted_id # Null /\ ~rel.ok
       THEN [ok |-> FALSE, kind |-> "raised", txns |-> c.txns]
       ELSE IF pending_id # Null /\ posted_id # Null /\ rel.relinked
       THEN [ok |-> TRUE, kind |-> "relinked", txns |-> rel.txns]
       ELSE [ok |-> TRUE, kind |-> "added",
             txns |-> upsert_transaction_added(c.txns, tx_data, c.now)]

\* service.sync_item, the body of `for t in modified`
ModifiedRecord(c, user, t) ==
    apply_transaction_modified(c.txns,
        [map_plaid_transaction_to_db_fields("", t, user)
            EXCEPT !.external_txn_id = t.transaction_id],
        c.now)

\* service.sync_item, the removed block: removed_ids and the soft delete
RemovedBlock(c, user, removed) ==
    IF Len(removed) = 0 THEN c.txns
    ELSE apply_transaction_removed(c, user, { removed[n] : n \in 1..Len(removed) })

\* ------------------------------------------------------------------ state
VARIABLES
    plaid_items,        \* the plaid_items table: the user's active items, in order
    db,                 \* the committed store (accounts, transactions, sync state)
    conn,               \* the open connection's view, or NoConn
    pc,                 \* where sync_all_items_for_user / sync_item stands
    syncs,              \* calls of sync_all_items_for_user started so far
    items,              \* sync_all_items_for_user: items
    idx,                \* sync_all_items_for_user: position of `for item in items`
    results,            \* sync_all_items_for_user: results
    outcome,            \* how the latest call ended
    accounts,           \* sync_item: accounts
    acct_i,             \* sync_item: position of `for acct in accounts`
    accounts_upserted, tx_added, tx_modified, tx_removed, last_has_more,
    next_cursor,        \* sync_item: next_cursor
    page,               \* sync_item: page
    delta,              \* sync_item: added, modified, removed, next_cursor_out, has_more
    step,               \* sync_item: statement of the page body reached
    unit_start,         \* history: the store as the completed units of work define it
    committed,          \* history: the counters as of the last committed page
    faults,             \* history: the faults met by the current call, in order
    acked_cursor,       \* history: item -> next_cursor of its last committed page
    retry_cursor,       \* history: item -> cursor of its last failed page request
    served,             \* history: page bodies committed by this sync_item
    entry,              \* history: the committed store when sync_item was entered, or
                        \* the store it left when it has ended
    calls,              \* overlapping calls: caller -> where its call stands and its locals
    row_lock            \* overlapping calls: the caller whose open transaction holds the
                        \* lock on the item's plaid_item_sync_state key, or 0

counters == <<accounts_upserted, tx_added, tx_modified, tx_removed, last_has_more>>
locals == <<accounts, acct_i, next_cursor, page, delta, step>>
history == <<unit_start, committed, faults, acked_cursor, retry_cursor, served, entry>>
orchestrator == <<syncs, items, idx, results, outcome>>
vars == <<plaid_items, db, conn, pc, orchestrator, counters, locals, history, calls, row_lock>>

\* two callers of sync_all_items_for_user whose calls may overlap
Callers == {1, 2}

\* plaid_item.list_active_plaid_items_for_user
list_active_plaid_items_for_user(user_id) ==
    SelectSeq(plaid_items, LAMBDA it : it.user_id = user_id)

NoDelta == [added |-> <<>>, modified |-> <<>>, removed |-> <<>>,
            next_cursor_out |-> Null, has_more |-> FALSE]
ZeroCounts == [tx_added |-> 0, tx_modified |-> 0, tx_removed |-> 0]
IdleCall == [pc |-> "idle", conn |-> NoConn, next_cursor |-> Null, delta |-> NoDelta]

Item == items[idx]

\* a fault: the item it hit, where sync_item stood, and its kind: "provider" (the
\* provider client raised), "injected" (a storage statement, a commit or a
\* connection attempt raised), "integrity" (the unique index on
\* external_txn_id rejected a statement)
Fault(kind) == [idx |-> idx, at |-> pc, step |-> step, kind |-> kind]

SyncSummary(item_id, au, ta, tm, tr, hm, err) ==
    [plaid_item_id |-> item_id, accounts_upserted |-> au, tx_added |-> ta,
     tx_modified |-> tm, tx_removed |-> tr, has_more |-> hm, error_code |-> err]

Init ==
    /\ plaid_items = <<Item1>>
    /\ db = InitialStore
    /\ conn = NoConn
    /\ pc = "idle"
    /\ syncs = 0
    /\ items = <<>>
    /\ idx = 0
    /\ results = <<>>
    /\ outcome = "none"
    /\ accounts = <<>>
    /\ acct_i = 0
    /\ accounts_upserted = 0
    /\ tx_added = 0
    /\ tx_modified = 0
    /\ tx_removed = 0
    /\ last_has_more = FALSE
    /\ next_cursor = Null
    /\ page = 0
    /\ delta = NoDelta
    /\ step = 0
    /\ unit_start = InitialStore
    /\ committed = ZeroCounts
    /\ faults = <<>>
    /\ acked_cursor = [i \in ItemIds |-> Null]
    /\ retry_cursor = [i \in ItemIds |-> "none"]
    /\ served = <<>>
    /\ entry = InitialStore
    /\ calls = [p \in Callers |-> IdleCall]
    /\ row_lock = 0

\* sync_item lines 27-31: the locals of a fresh sync_item call
FreshLocals ==
    /\ accounts' = <<>>
    /\ acct_i' = 0
    /\ accounts_upserted' = 0
    /\ tx_added' = 0
    /\ tx_modified' = 0
    /\ tx_removed' = 0
    /\ last_has_more' = FALSE
    /\ next_cursor' = Null
    /\ page' = 0
    /\ delta' = NoDelta
    /\ step' = 0
    /\ committed' = ZeroCounts
    /\ served' = <<>>

\* Return with the loop over the items left at the first summary carrying an error
ReturnStopsAtError(summary) ==
    /\ results' = Append(results, summary)
    /\ IF idx < Len(items) /\ summary.error_code = "none"
       THEN /\ idx' = idx + 1
            /\ pc' = "get_accounts"
            /\ outcome' = outcome
       ELSE /\ idx' = idx
            /\ pc' = "idle"
            /\ outcome' = "returned"
    /\ UNCHANGED <<syncs, items>>
    /\ FreshLocals

\* sync_item returns `summary`: results.append(summary), then the next item or
\* `return results`
Return(summary) ==
    /\ results' = Append(results, summary)
    /\ IF idx < Len(items)
       THEN /\ idx' = idx + 1
            /\ pc' = "get_accounts"
            /\ outcome' = outcome
       ELSE /\ idx' = idx
            /\ pc' = "idle"
            /\ outcome' = "returned"
    /\ UNCHANGED <<syncs, items>>
    /\ FreshLocals

\* an exception leaves sync_item and sync_all_items_for_user
Raise ==
    /\ pc' = "idle"
    /\ outcome' = "raised_in_sync_item"
    /\ UNCHANGED <<syncs, items, idx, results>>
    /\ FreshLocals

\* ---------------------------------------------------- sync_all_items_for_user
\* lines 247-261: enumerate the active items
Enumerate ==
    /\ pc = "idle"
    /\ syncs < MaxSyncs
    /\ syncs' = syncs + 1
    /\ items' = list_active_plaid_items_for_user(SyncUser)
    /\ results' = <<>>
    /\ faults' = <<>>
    /\ IF Len(items') = 0
       THEN idx' = 0 /\ pc' = "idle" /\ outcome' = "returned"
       ELSE idx' = 1 /\ pc' = "get_accounts" /\ outcome' = "running"
    /\ FreshLocals
    /\ UNCHANGED <<calls, row_lock, plaid_items, entry, db, conn, unit_start, acked_cursor, retry_cursor>>

\* EnumerateFails with the exception swallowed: the call returns an empty list
EnumerateFails_returns_nothing ==
    /\ pc = "idle"
    /\ syncs < MaxSyncs
    /\ syncs' = syncs + 1
    /\ results' = <<>>
    /\ outcome' = "returned"
    /\ faults' = <<Fault("injected")>>
    /\ UNCHANGED <<calls, row_lock, plaid_items, entry, db, conn, pc, items, idx, counters, locals,
                   unit_start, committed, acked_cursor, retry_cursor, served>>

\* lines 255-257: the enumeration fails; rollback and re-raise
EnumerateFails ==
    /\ pc = "idle"
    /\ syncs < MaxSyncs
    /\ syncs' = syncs + 1
    /\ results' = <<>>
    /\ outcome' = "raised_in_enumerate"
    /\ faults' = <<Fault("injected")>>
    /\ UNCHANGED <<calls, row_lock, plaid_items, entry, db, conn, pc, items, idx, counters, locals,
                   unit_start, committed, acked_cursor, retry_cursor, served>>

\* ------------------------------------------------------- sync_item, phase 1
\* lines 34-35: plaid_client.get_accounts returns the snapshot
GetAccounts ==
    /\ pc = "get_accounts"
    /\ accounts' = Snapshot(Item.item_id)
    /\ pc' = "acct_begin"
    /\ entry' = db
    /\ UNCHANGED <<calls, row_lock, plaid_items, db, conn, orchestrator, counters, acct_i, next_cursor, page, delta,
                   step, unit_start, committed, faults, acked_cursor, retry_cursor, served>>

\* lines 36-55: get_accounts raises
GetAccountsFails ==
    /\ pc = "get_accounts"
    /\ faults' = Append(faults, Fault("provider"))
    /\ Return(SyncSummary(Item.item_id, 0, 0, 0, 0, FALSE, "accounts_get_failed"))
    /\ entry' = db
    /\ UNCHANGED <<calls, row_lock, plaid_items, db, conn, unit_start, acked_cursor, retry_cursor>>

\* AccountPhaseFailed with the exception swallowed: rollback, then on to phase 2
AccountPhaseFailed_carries_on ==
    /\ conn' = NoConn
    /\ faults' = Append(faults, Fault("injected"))
    /\ pc' = "load_cursor"
    /\ UNCHANGED <<calls, row_lock, plaid_items, db, orchestrator, counters, locals, unit_start, committed,
                   acked_cursor, retry_cursor, served, entry>>

\* lines 69-89: the account phase fails: rollback, summary with the counter so far
AccountPhaseFailed ==
    /\ conn' = NoConn
    /\ faults' = Append(faults, Fault("injected"))
    /\ Return(SyncSummary(Item.item_id, accounts_upserted, 0, 0, 0, FALSE,
                          "accounts_upsert_failed"))
    /\ UNCHANGED <<calls, row_lock, plaid_items, db, unit_start, acked_cursor, retry_cursor>>
    /\ entry' = db

\* AccountsBegin without the get_or_create_sync_state of line 60
AccountsBegin_without_sync_state ==
    /\ pc = "acct_begin"
    /\ conn' = Open(db)
    /\ acct_i' = 1
    /\ pc' = "acct_upsert"
    /\ UNCHANGED <<calls, row_lock, plaid_items, db, orchestrator, counters, accounts, next_cursor, page, delta, step,
                   history>>

\* lines 58-60: open the connection, get_or_create_sync_state
AccountsBegin ==
    /\ pc = "acct_begin"
    /\ conn' = get_or_create_sync_state(Open(db), Item.id)
    /\ acct_i' = 1
    /\ pc' = "acct_upsert"
    /\ UNCHANGED <<calls, row_lock, plaid_items, db, orchestrator, counters, accounts, next_cursor, page, delta, step,
                   history>>

\* line 58: get_connection() raises outside the try block
AccountsConnectFails ==
    /\ pc = "acct_begin"
    /\ faults' = Append(faults, Fault("injected"))
    /\ Raise
    /\ UNCHANGED <<calls, row_lock, plaid_items, db, conn, unit_start, acked_cursor, retry_cursor>>
    /\ entry' = db

\* line 60 raises
AccountsBeginFails ==
    /\ pc = "acct_begin"
    /\ AccountPhaseFailed

\* AccountUpsert on a connection in autocommit mode
AccountUpsertAutocommits ==
    /\ pc = "acct_upsert"
    /\ acct_i <= Len(accounts)
    /\ conn' = upsert_plaid_account(conn, SyncUser, Item.id, accounts[acct_i])
    /\ db' = Store(conn')
    /\ accounts_upserted' = accounts_upserted + 1
    /\ acct_i' = acct_i + 1
    /\ UNCHANGED <<calls, row_lock, plaid_items, pc, orchestrator, tx_added, tx_modified, tx_removed, last_has_more,
                   accounts, next_cursor, page, delta, step, history>>

\* lines 61-66: one round of `for acct in accounts`
AccountUpsert ==
    /\ pc = "acct_upsert"
    /\ acct_i <= Len(accounts)
    /\ conn' = upsert_plaid_account(conn, SyncUser, Item.id, accounts[acct_i])
    /\ accounts_upserted' = accounts_upserted + 1
    /\ acct_i' = acct_i + 1
    /\ UNCHANGED <<calls, row_lock, plaid_items, db, pc, orchestrator, tx_added, tx_modified, tx_removed, last_has_more,
                   accounts, next_cursor, page, delta, step, history>>

\* line 65 raises
AccountUpsertFails ==
    /\ pc = "acct_upsert"
    /\ acct_i <= Len(accounts)
    /\ AccountPhaseFailed

\* lines 67-68: update_accounts_last_synced_at and commit
AccountsCommit ==
    /\ pc = "acct_upsert"
    /\ acct_i > Len(accounts)
    /\ db' = Store(update_accounts_last_synced_at(conn, Item.id, syncs))
    /\ unit_start' = db'
    /\ conn' = NoConn
    /\ pc' = "load_cursor"
    /\ UNCHANGED <<calls, row_lock, plaid_items, entry, orchestrator, counters, locals, committed, faults, acked_cursor,
                   retry_cursor, served>>

\* line 67 or 68 raises
AccountsCommitFails ==
    /\ pc = "acct_upsert"
    /\ acct_i > Len(accounts)
    /\ AccountPhaseFailed

\* ------------------------------------------------------- sync_item, phase 2
\* lines 94-105: load the cursor on its own connection
LoadCursor ==
    /\ pc = "load_cursor"
    /\ LET c == get_or_create_sync_state(Open(db), Item.id)
       IN /\ next_cursor' = ReturnedSyncState(c, Item.id).transactions_cursor
          /\ db' = Store(c)
    /\ unit_start' = db'
    /\ page' = 0
    /\ pc' = "fetch"
    /\ UNCHANGED <<calls, row_lock, plaid_items, entry, conn, orchestrator, counters, accounts, acct_i, delta, step,
                   committed, faults, acked_cursor, retry_cursor, served>>

\* lines 96-103: the load fails: rollback and `raise`
LoadCursorFails ==
    /\ pc = "load_cursor"
    /\ faults' = Append(faults, Fault("injected"))
    /\ Raise
    /\ UNCHANGED <<calls, row_lock, plaid_items, db, conn, unit_start, acked_cursor, retry_cursor>>
    /\ entry' = db

\* lines 108-119 and 144: the provider returns one page; the page's connection
\* opens.  The provider's chain of has_more pages is finite.
FetchPage ==
    /\ pc = "fetch"
    /\ page < MaxPages
    /\ \E body \in PageBodies(Item.item_id), nc \in Cursors, hm \in BOOLEAN :
        /\ (page + 1 = MaxPages) => ~hm
        /\ delta' = [added |-> body.added, modified |-> body.modified,
                     removed |-> body.removed, next_cursor_out |-> nc, has_more |-> hm]
    /\ page' = page + 1
    /\ conn' = Open(db)
    /\ step' = 1
    /\ pc' = "page"
    /\ UNCHANGED <<calls, row_lock, plaid_items, db, orchestrator, counters, accounts, acct_i, next_cursor, history>>

\* lines 120-141: transactions_sync_page raises PlaidAPIError
FetchPageFails ==
    /\ pc = "fetch"
    /\ faults' = Append(faults, Fault("provider"))
    /\ retry_cursor' = [retry_cursor EXCEPT ![Item.id] = next_cursor]
    /\ Return(SyncSummary(Item.item_id, accounts_upserted, tx_added, tx_modified,
                          tx_removed, last_has_more, "transactions_sync_failed"))
    /\ UNCHANGED <<calls, row_lock, plaid_items, db, conn, unit_start, acked_cursor>>
    /\ entry' = db

\* line 144: get_connection() raises outside the try block
PageConnectFails ==
    /\ pc = "fetch"
    /\ faults' = Append(faults, Fault("injected"))
    /\ retry_cursor' = [retry_cursor EXCEPT ![Item.id] = next_cursor]
    /\ Raise
    /\ UNCHANGED <<calls, row_lock, plaid_items, db, conn, unit_start, acked_cursor>>
    /\ entry' = db

nAdded == Len(delta.added)
nModified == Len(delta.modified)

\* lines 201-222: the page fails: rollback, summary with the counters as they stand
PageFailed(why) ==
    /\ conn' = NoConn
    /\ faults' = Append(faults, Fault(why))
    /\ retry_cursor' = [retry_cursor EXCEPT ![Item.id] = next_cursor]
    /\ Return(SyncSummary(Item.item_id, accounts_upserted, tx_added, tx_modified,
                          tx_removed, last_has_more, "page_processing_failed"))
    /\ UNCHANGED <<calls, row_lock, plaid_items, db, unit_start, acked_cursor>>
    /\ entry' = db

\* lines 147-177: one round of `for t in added`
AddedStep ==
    /\ pc = "page"
    /\ step <= nAdded
    /\ LET r == AddedRecord(conn, SyncUser, Item.id, delta.added[step])
       IN IF ~r.ok
          THEN PageFailed("integrity")
          ELSE /\ conn' = [conn EXCEPT !.txns = r.txns]
               /\ tx_added' = IF r.kind = "added" THEN tx_added + 1 ELSE tx_added
               /\ tx_modified' = IF r.kind = "relinked" THEN tx_modified + 1 ELSE tx_modified
               /\ step' = step + 1
               /\ UNCHANGED <<calls, row_lock, plaid_items, db, pc, orchestrator, accounts_upserted, tx_removed,
                              last_has_more, accounts, acct_i, next_cursor, page, delta,
                              history>>

\* a storage fault in one of the statements of lines 149-176
AddedStepFails ==
    /\ pc = "page"
    /\ step <= nAdded
    /\ PageFailed("injected")

\* ModifiedStep without `tx_modified += 1`
ModifiedStep_uncounted ==
    /\ pc = "page"
    /\ nAdded < step /\ step <= nAdded + nModified
    /\ conn' = [conn EXCEPT !.txns = ModifiedRecord(conn, SyncUser, delta.modified[step - nAdded])]
    /\ step' = step + 1
    /\ UNCHANGED <<calls, row_lock, plaid_items, db, pc, orchestrator, counters, accounts, acct_i, next_cursor,
                   page, delta, history>>

\* lines 179-188: one round of `for t in modified`
ModifiedStep ==
    /\ pc = "page"
    /\ nAdded < step /\ step <= nAdded + nModified
    /\ conn' = [conn EXCEPT !.txns = ModifiedRecord(conn, SyncUser, delta.modified[step - nAdded])]
    /\ tx_modified' = tx_modified + 1
    /\ step' = step + 1
    /\ UNCHANGED <<calls, row_lock, plaid_items, db, pc, orchestrator, accounts_upserted, tx_added, tx_removed,
                   last_has_more, accounts, acct_i, next_cursor, page, delta, history>>

ModifiedStepFails ==
    /\ pc = "page"
    /\ nAdded < step /\ step <= nAdded + nModified
    /\ PageFailed("injected")

\* lines 190-195: the removed block
RemovedStep ==
    /\ pc = "page"
    /\ step = nAdded + nModified + 1
    /\ conn' = [conn EXCEPT !.txns = RemovedBlock(conn, SyncUser, delta.removed)]
    /\ tx_removed' = tx_removed + Len(delta.removed)
    /\ step' = step + 1
    /\ UNCHANGED <<calls, row_lock, plaid_items, db, pc, orchestrator, accounts_upserted, tx_added, tx_modified,
                   last_has_more, accounts, acct_i, next_cursor, page, delta, history>>

RemovedStepFails ==
    /\ pc = "page"
    /\ step = nAdded + nModified + 1
    /\ PageFailed("injected")

\* CursorStep with the cursor written on a connection of its own and committed
CursorStepAutocommits ==
    /\ pc = "page"
    /\ step = nAdded + nModified + 2
    /\ conn' = update_sync_cursor(conn, Item.id, delta.next_cursor_out)
    /\ db' = [db EXCEPT !.sync = update_sync_cursor(Open(db), Item.id, delta.next_cursor_out).sync]
    /\ last_has_more' = delta.has_more
    /\ step' = step + 1
    /\ UNCHANGED <<calls, row_lock, plaid_items, pc, orchestrator, accounts_upserted, tx_added, tx_modified,
                   tx_removed, accounts, acct_i, next_cursor, page, delta, history>>

\* lines 197-199: update_sync_cursor, last_has_more = has_more
CursorStep ==
    /\ pc = "page"
    /\ step = nAdded + nModified + 2
    /\ conn' = update_sync_cursor(conn, Item.id, delta.next_cursor_out)
    /\ last_has_more' = delta.has_more
    /\ step' = step + 1
    /\ UNCHANGED <<calls, row_lock, plaid_items, db, pc, orchestrator, accounts_upserted, tx_added, tx_modified,
                   tx_removed, accounts, acct_i, next_cursor, page, delta, history>>

CursorStepFails ==
    /\ pc = "page"
    /\ step = nAdded + nModified + 2
    /\ PageFailed("injected")

\* ------------------------------------------- a whole page, as one function
\* lines 147-177 over added[n..], from connection view c
RECURSIVE AddedLoop(_, _, _, _, _)
AddedLoop(c, user, item, added, n) ==
    IF n > Len(added)
    THEN [ok |-> TRUE, txns |-> c.txns, tx_added |-> 0, tx_modified |-> 0]
    ELSE LET r == AddedRecord(c, user, item, added[n])
             rest == AddedLoop([c EXCEPT !.txns = r.txns], user, item, added, n + 1)
         IN IF ~r.ok
            THEN [ok |-> FALSE, txns |-> c.txns, tx_added |-> 0, tx_modified |-> 0]
            ELSE [rest EXCEPT
                    !.tx_added = @ + (IF r.kind = "added" THEN 1 ELSE 0),
                    !.tx_modified = @ + (IF r.kind = "relinked" THEN 1 ELSE 0)]

\* lines 179-188 over modified[n..]
RECURSIVE ModifiedLoop(_, _, _, _)
ModifiedLoop(c, user, modified, n) ==
    IF n > Len(modified) THEN c.txns
    ELSE ModifiedLoop([c EXCEPT !.txns = ModifiedRecord(c, user, modified[n])],
                      user, modified, n + 1)

\* lines 144-200 without a storage fault: the store a page leaves when it
\* commits, and what it adds to the counters; ok = FALSE when a statement raised
\* and the page was rolled back
ProcessPage(store, user, item, d) ==
    LET c0 == Open(store)
        a == AddedLoop(c0, user, item, d.added, 1)
        c1 == [c0 EXCEPT !.txns = a.txns]
        c2 == [c1 EXCEPT !.txns = ModifiedLoop(c1, user, d.modified, 1)]
        c3 == [c2 EXCEPT !.txns = RemovedBlock(c2, user, d.removed)]
        c4 == update_sync_cursor(c3, item, d.next_cursor_out)
    IN IF ~a.ok
       THEN [ok |-> FALSE, store |-> store, tx_added |-> 0, tx_modified |-> 0,
             tx_removed |-> 0]
       ELSE [ok |-> TRUE, store |-> Store(c4), tx_added |-> a.tx_added,
             tx_modified |-> a.tx_modified + Len(d.modified),
             tx_removed |-> Len(d.removed)]

\* CommitStep with `break` taken after every committed page
CommitStep_breaks_always ==
    /\ pc = "page"
    /\ step = nAdded + nModified + 3
    /\ db' = Store(conn)
    /\ conn' = NoConn
    /\ unit_start' = ProcessPage(unit_start, SyncUser, Item.id, delta).store
    /\ acked_cursor' = [acked_cursor EXCEPT ![Item.id] = delta.next_cursor_out]
    /\ retry_cursor' = [retry_cursor EXCEPT ![Item.id] = "none"]
    /\ UNCHANGED <<calls, row_lock, plaid_items, faults>>
    /\ entry' = db'
    /\ Return(SyncSummary(Item.item_id, accounts_upserted, tx_added, tx_modified,
                          tx_removed, last_has_more, "none"))

\* line 200, then lines 226-237: commit; leave the loop unless has_more
CommitStep ==
    /\ pc = "page"
    /\ step = nAdded + nModified + 3
    /\ db' = Store(conn)
    /\ conn' = NoConn
    /\ unit_start' = ProcessPage(unit_start, SyncUser, Item.id, delta).store
    /\ acked_cursor' = [acked_cursor EXCEPT ![Item.id] = delta.next_cursor_out]
    /\ retry_cursor' = [retry_cursor EXCEPT ![Item.id] = "none"]
    /\ UNCHANGED <<calls, row_lock, plaid_items, faults>>
    /\ entry' = IF last_has_more THEN entry ELSE db'
    /\ IF last_has_more
       THEN /\ next_cursor' = delta.next_cursor_out
            /\ pc' = "fetch"
            /\ committed' = [tx_added |-> tx_added, tx_modified |-> tx_modified,
                             tx_removed |-> tx_removed]
            /\ served' = Append(served, delta)
            /\ UNCHANGED <<orchestrator, counters, accounts, acct_i, page, delta, step>>
       ELSE Return(SyncSummary(Item.item_id, accounts_upserted, tx_added, tx_modified,
                               tx_removed, last_has_more, "none"))

\* line 200 raises
CommitStepFails ==
    /\ pc = "page"
    /\ step = nAdded + nModified + 3
    /\ PageFailed("injected")

Next ==
    \/ Enumerate
    \/ EnumerateFails
    \/ GetAccounts
    \/ GetAccountsFails
    \/ AccountsBegin
    \/ AccountsConnectFails
    \/ AccountsBeginFails
    \/ AccountUpsert
    \/ AccountUpsertFails
    \/ AccountsCommit
    \/ AccountsCommitFails
    \/ LoadCursor
    \/ LoadCursorFails
    \/ FetchPage
    \/ FetchPageFails
    \/ PageConnectFails
    \/ AddedStep
    \/ AddedStepFails
    \/ ModifiedStep
    \/ ModifiedStepFails
    \/ RemovedStep
    \/ RemovedStepFails
    \/ CursorStep
    \/ CursorStepFails
    \/ CommitStep
    \/ CommitStepFails

Spec == Init /\ [][Next]_vars

\* the same program for a user with two linked items, one call
InitTwoItems ==
    /\ plaid_items = <<Item1, Item2>>
    /\ db = InitialStore
    /\ conn = NoConn
    /\ pc = "idle"
    /\ syncs = MaxSyncs - 1
    /\ items = <<>>
    /\ idx = 0
    /\ results = <<>>
    /\ outcome = "none"
    /\ accounts = <<>>
    /\ acct_i = 0
    /\ accounts_upserted = 0
    /\ tx_added = 0
    /\ tx_modified = 0
    /\ tx_removed = 0
    /\ last_has_more = FALSE
    /\ next_cursor = Null
    /\ page = 0
    /\ delta = NoDelta
    /\ step = 0
    /\ unit_start = InitialStore
    /\ committed = ZeroCounts
    /\ faults = <<>>
    /\ acked_cursor = [i \in ItemIds |-> Null]
    /\ retry_cursor = [i \in ItemIds |-> "none"]
    /\ served = <<>>
    /\ entry = InitialStore
    /\ calls = [p \in Callers |-> IdleCall]
    /\ row_lock = 0

SpecTwoItems == InitTwoItems /\ [][Next]_vars

\* the steps of Next, those that report a fault first: the same action, whose
\* enabledness is settled without a page having to be evaluated
Step ==
    \/ EnumerateFails \/ GetAccountsFails \/ AccountsConnectFails \/ AccountsBeginFails
    \/ AccountUpsertFails \/ AccountsCommitFails \/ LoadCursorFails \/ FetchPageFails
    \/ PageConnectFails \/ AddedStepFails \/ ModifiedStepFails \/ RemovedStepFails
    \/ CursorStepFails \/ CommitStepFails
    \/ Enumerate \/ GetAccounts \/ AccountsBegin \/ AccountUpsert \/ AccountsCommit
    \/ LoadCursor \/ FetchPage \/ AddedStep \/ ModifiedStep \/ RemovedStep \/ CursorStep
    \/ CommitStep

\* one call for a user whose linked items are the fourth and the second
InitItemList ==
    /\ plaid_items = <<Item4, Item2>>
    /\ db = InitialStore
    /\ conn = NoConn
    /\ pc = "idle"
    /\ syncs = MaxSyncs - 1
    /\ items = <<>>
    /\ idx = 0
    /\ results = <<>>
    /\ outcome = "none"
    /\ accounts = <<>>
    /\ acct_i = 0
    /\ accounts_upserted = 0
    /\ tx_added = 0
    /\ tx_modified = 0
    /\ tx_removed = 0
    /\ last_has_more = FALSE
    /\ next_cursor = Null
    /\ page = 0
    /\ delta = NoDelta
    /\ step = 0
    /\ unit_start = InitialStore
    /\ committed = ZeroCounts
    /\ faults = <<>>
    /\ acked_cursor = [i \in ItemIds |-> Null]
    /\ retry_cursor = [i \in ItemIds |-> "none"]
    /\ served = <<>>
    /\ entry = InitialStore
    /\ calls = [p \in Callers |-> IdleCall]
    /\ row_lock = 0

\* that call under the assumption that a running call goes on: the interpreter
\* executes the next statement, the provider and the database answer (with a
\* result or with an error)
SpecItemListFair == InitItemList /\ [][Next]_vars /\ WF_vars(Step)

\* the same program for a user whose one linked item is the third
InitLedger ==
    /\ plaid_items = <<Item3>>
    /\ db = InitialStore
    /\ conn = NoConn
    /\ pc = "idle"
    /\ syncs = 0
    /\ items = <<>>
    /\ idx = 0
    /\ results = <<>>
    /\ outcome = "none"
    /\ accounts = <<>>
    /\ acct_i = 0
    /\ accounts_upserted = 0
    /\ tx_added = 0
    /\ tx_modified = 0
    /\ tx_removed = 0
    /\ last_has_more = FALSE
    /\ next_cursor = Null
    /\ page = 0
    /\ delta = NoDelta
    /\ step = 0
    /\ unit_start = InitialStore
    /\ committed = ZeroCounts
    /\ faults = <<>>
    /\ acked_cursor = [i \in ItemIds |-> Null]
    /\ retry_cursor = [i \in ItemIds |-> "none"]
    /\ served = <<>>
    /\ entry = InitialStore
    /\ calls = [p \in Callers |-> IdleCall]
    /\ row_lock = 0

SpecLedger == InitLedger /\ [][Next]_vars

\* the same program for a user whose one linked item is the fourth
InitIsolation ==
    /\ plaid_items = <<Item4>>
    /\ db = InitialStore
    /\ conn = NoConn
    /\ pc = "idle"
    /\ syncs = 0
    /\ items = <<>>
    /\ idx = 0
    /\ results = <<>>
    /\ outcome = "none"
    /\ accounts = <<>>
    /\ acct_i = 0
    /\ accounts_upserted = 0
    /\ tx_added = 0
    /\ tx_modified = 0
    /\ tx_removed = 0
    /\ last_has_more = FALSE
    /\ next_cursor = Null
    /\ page = 0
    /\ delta = NoDelta
    /\ step = 0
    /\ unit_start = InitialStore
    /\ committed = ZeroCounts
    /\ faults = <<>>
    /\ acked_cursor = [i \in ItemIds |-> Null]
    /\ retry_cursor = [i \in ItemIds |-> "none"]
    /\ served = <<>>
    /\ entry = InitialStore
    /\ calls = [p \in Callers |-> IdleCall]
    /\ row_lock = 0

SpecIsolation == InitIsolation /\ [][Next]_vars

\* ------------------------------------------ a whole sync_item, as a function
\* lines 58-68 without a fault: the store the account phase commits
RECURSIVE AccountLoop(_, _, _, _, _)
AccountLoop(c, user, item, accts, n) ==
    IF n > Len(accts) THEN c
    ELSE AccountLoop(upsert_plaid_account(c, user, item, accts[n]), user, item, accts, n + 1)

AccountPhase(store, it, now) ==
    Store(update_accounts_last_synced_at(
            AccountLoop(get_or_create_sync_state(Open(store), it.id), it.user_id, it.id,
                        Snapshot(it.item_id), 1),
            it.id, now))

\* lines 107-228 without a fault injected by the environment, over the pages the
\* provider served: the store and counters when the loop ends, which is at the
\* first page a statement of which raised or after the last page
RECURSIVE PageLoop(_, _, _, _)
PageLoop(store, it, pages, n) ==
    IF n > Len(pages)
    THEN [ok |-> TRUE, store |-> store, tx_added |-> 0, tx_modified |-> 0, tx_removed |-> 0]
    ELSE LET r == ProcessPage(store, it.user_id, it.id, pages[n])
             rest == PageLoop(r.store, it, pages, n + 1)
         IN IF ~r.ok THEN r
            ELSE [rest EXCEPT !.tx_added = @ + r.tx_added,
                              !.tx_modified = @ + r.tx_modified,
                              !.tx_removed = @ + r.tx_removed]

\* the summary of a sync_item call that met no fault, from the store it started on
FaultFreeSummary(store, it, now, pages) ==
    LET r == PageLoop(AccountPhase(store, it, now), it, pages, 1)
    IN SyncSummary(it.item_id, Len(Snapshot(it.item_id)), r.tx_added, r.tx_modified,
                   r.tx_removed, pages[Len(pages)].has_more, "none")

\* ------------------------------------------------------- overlapping calls
\* Two calls of sync_all_items_for_user for the same user, each in a server
\* process of its own (sync_item has no await, so calls served by one event
\* loop run one after the other; nothing in the code serializes calls served
\* by different processes).  Each unit of work is a database transaction of its
\* own on its own connection.  The statements that write the item's
\* plaid_item_sync_state row take the lock on its key: INSERT .. ON CONFLICT
\* waits for an open transaction that inserted or updated the key, and so does
\* UPDATE.  A page is applied to the committed store when it commits.

\* the store without the accounts, for the steps of overlapping calls
main_vars_but_db == <<plaid_items, conn, pc, orchestrator, counters, locals, history>>

\* the one item the overlapping calls enumerate
OverlapItem == list_active_plaid_items_for_user(SyncUser)[1]

\* the provider's pages by request cursor: null -> (added [P], c1, more),
\* c1 -> (added [Q], c2, no more), c2 -> nothing new
OverlapPage(cursor) ==
    IF cursor = Null
    THEN [added |-> <<rP>>, modified |-> <<>>, removed |-> <<>>,
          next_cursor_out |-> "c1", has_more |-> TRUE]
    ELSE IF cursor = "c1"
    THEN [added |-> <<rQ>>, modified |-> <<>>, removed |-> <<>>,
          next_cursor_out |-> "c2", has_more |-> FALSE]
    ELSE [added |-> <<>>, modified |-> <<>>, removed |-> <<>>,
          next_cursor_out |-> "c2", has_more |-> FALSE]

\* lines 247-261 and 34-35: the call enumerates the item and fetches its snapshot
OverlapEnumerate(p) ==
    /\ calls[p].pc = "idle"
    /\ calls' = [calls EXCEPT ![p].pc = "acct_begin"]
    /\ UNCHANGED <<db, row_lock, main_vars_but_db>>

\* lines 58-60: the account phase opens its connection and runs
\* get_or_create_sync_state, which waits while another transaction holds the key
OverlapAccountsBegin(p) ==
    /\ calls[p].pc = "acct_begin"
    /\ row_lock = 0
    /\ calls' = [calls EXCEPT ![p].pc = "acct_open",
                              ![p].conn = get_or_create_sync_state(Open(db), OverlapItem.id)]
    /\ row_lock' = p
    /\ UNCHANGED <<db, main_vars_but_db>>

\* lines 61-68: the upserts, the timestamp and the commit of the account phase
OverlapAccountsCommit(p) ==
    /\ calls[p].pc = "acct_open"
    /\ LET c0 == [Open(db) EXCEPT !.sync = calls[p].conn.sync]
           c1 == AccountLoop(c0, OverlapItem.user_id, OverlapItem.id,
                             Snapshot(OverlapItem.item_id), 1)
       IN db' = Store(update_accounts_last_synced_at(c1, OverlapItem.id, p))
    /\ calls' = [calls EXCEPT ![p].pc = "load_cursor", ![p].conn = NoConn]
    /\ row_lock' = 0
    /\ UNCHANGED main_vars_but_db

\* lines 69-91: the account phase fails and is rolled back; sync_item returns
OverlapAccountsRollback(p) ==
    /\ calls[p].pc = "acct_open"
    /\ calls' = [calls EXCEPT ![p] = IdleCall]
    /\ row_lock' = 0
    /\ UNCHANGED <<db, main_vars_but_db>>

\* lines 94-105: get_or_create_sync_state and commit on a connection of its own
OverlapLoadCursor(p) ==
    /\ calls[p].pc = "load_cursor"
    /\ row_lock = 0
    /\ LET c == get_or_create_sync_state(Open(db), OverlapItem.id)
       IN /\ db' = Store(c)
          /\ calls' = [calls EXCEPT
                ![p].pc = "fetch",
                ![p].next_cursor = ReturnedSyncState(c, OverlapItem.id).transactions_cursor]
    /\ UNCHANGED <<row_lock, main_vars_but_db>>

\* lines 108-119: the provider returns the page after the call's cursor
OverlapFetch(p) ==
    /\ calls[p].pc = "fetch"
    /\ calls' = [calls EXCEPT ![p].pc = "page", ![p].delta = OverlapPage(calls[p].next_cursor)]
    /\ UNCHANGED <<db, row_lock, main_vars_but_db>>

\* lines 144-237: the page is applied and committed, its cursor written by
\* update_sync_cursor, or rolled back when a statement raised; the loop goes on
\* while has_more
OverlapPageCommit(p) ==
    /\ calls[p].pc = "page"
    /\ row_lock = 0
    /\ LET r == ProcessPage(db, OverlapItem.user_id, OverlapItem.id, calls[p].delta)
       IN /\ db' = r.store
          /\ calls' = IF r.ok /\ calls[p].delta.has_more
                      THEN [calls EXCEPT ![p].pc = "fetch",
                                         ![p].next_cursor = calls[p].delta.next_cursor_out]
                      ELSE [calls EXCEPT ![p] = IdleCall]
    /\ UNCHANGED <<row_lock, main_vars_but_db>>

NextOverlap ==
    \/ \E p \in Callers : OverlapEnumerate(p)
    \/ \E p \in Callers : OverlapAccountsBegin(p)
    \/ \E p \in Callers : OverlapAccountsCommit(p)
    \/ \E p \in Callers : OverlapAccountsRollback(p)
    \/ \E p \in Callers : OverlapLoadCursor(p)
    \/ \E p \in Callers : OverlapFetch(p)
    \/ \E p \in Callers : OverlapPageCommit(p)

SpecOverlap == Init /\ [][NextOverlap]_vars

\* ------------------------------------------------------------------ claims

\* C1: whatever fault hits while an item is synced, sync_all_items_for_user does
\* not raise: it returns one summary per enumerated item; only a failure to
\* enumerate the items reaches the caller.
C1_OnlyEnumerationRaises ==
    /\ outcome # "raised_in_sync_item"
    /\ outcome = "returned" => Len(results) = Len(items)

\* C2: when the provider's account fetch fails for the first of two items (and
\* nothing else fails), the call returns exactly two summaries: the first is
\* accounts_get_failed with all counts 0 and has_more false, the second is the
\* summary the second item gets from the untouched store, without an error code.
C2_FirstItemFetchFailureIsolated ==
    [][ ( /\ outcome' = "returned"
          /\ Len(items) = 2
          /\ faults' = << [idx |-> 1, at |-> "get_accounts", step |-> 0, kind |-> "provider"] >> )
        => ( /\ Len(results') = 2
             /\ results'[1] = SyncSummary(items[1].item_id, 0, 0, 0, 0, FALSE,
                                          "accounts_get_failed")
             /\ pc = "page"
             /\ results'[2] = FaultFreeSummary(InitialStore, items[2], syncs,
                                               Append(served, delta))
             /\ results'[2].error_code = "none" ) ]_vars

\* C2 witness: the call returned after the first item's account fetch failed and the
\* second item added a transaction
C2_Witness ==
    /\ outcome = "returned"
    /\ Len(results) = 2
    /\ results[1].error_code = "accounts_get_failed"
    /\ results[2].error_code = "none"
    /\ results[2].tx_added > 0
    /\ results[2].accounts_upserted > 0

\* C3: the cursor sent in the first delta request of an invocation is the
\* next_cursor of the item's most recently committed page (null if none was ever
\* committed), and a page that failed is requested again with the cursor it was
\* requested with.
C3_ResumeFromCommittedCursor ==
    (pc = "fetch" /\ page = 0)
    => /\ next_cursor = acked_cursor[Item.id]
       /\ retry_cursor[Item.id] # "none" => next_cursor = retry_cursor[Item.id]

\* C3 witness: an invocation is about to send its first request, after an earlier
\* one committed a page and then failed on the next
C3_Witness ==
    /\ pc = "fetch"
    /\ page = 0
    /\ retry_cursor[Item.id] \in Cursors
    /\ acked_cursor[Item.id] \in Cursors

\* C4: the committed store is always the result of whole pages: the rows and the
\* cursor of a page are published together by its commit, and a page that fails
\* at any statement leaves the committed rows and cursor as they were before it.
C4_PageAllOrNothing ==
    db = unit_start

\* C4 witness: a page failed after statements of it had run on the connection, and
\* an earlier page of the item had been committed
C4_Witness ==
    /\ faults # <<>>
    /\ faults[Len(faults)].at = "page"
    /\ faults[Len(faults)].step >= 4
    /\ \E s \in db.sync : s.plaid_item_id = "i1" /\ s.transactions_cursor \in Cursors
    /\ \E r \in db.txns : r.original_payer_user_id = SyncUser

\* C5: a summary with an error code counts committed work only: with
\* page_processing_failed the transaction counters are the totals of the pages
\* committed before, with accounts_upsert_failed no rolled-back account upsert
\* is counted.
C5_ErrorSummaryCountsCommittedWork ==
    [][ Len(results') = Len(results) + 1
        => LET s == results'[Len(results')]
           IN /\ s.error_code = "page_processing_failed"
                 => /\ s.tx_added = committed.tx_added
                    /\ s.tx_modified = committed.tx_modified
                    /\ s.tx_removed = committed.tx_removed
              /\ s.error_code = "accounts_upsert_failed" => s.accounts_upserted = 0 ]_vars

\* the store after sync_item runs once more, fault-free, over the same snapshot
\* and the same pages
Replay(store, it, now, pages) ==
    PageLoop(AccountPhase(store, it, now), it, pages, 1).store

\* C6: once a snapshot and a sequence of pages have been fully applied for an
\* item, applying the same snapshot and pages again creates no account row and
\* no transaction row.
C6_ReplayCreatesNoRows ==
    [][ ( /\ pc = "page"
          /\ Len(results') = Len(results) + 1
          /\ results'[Len(results')].error_code = "none" )
        => LET again == Replay(db', Item, syncs, Append(served, delta))
           IN /\ Cardinality(again.txns) = Cardinality(db'.txns)
              /\ Cardinality(again.accounts) = Cardinality(db'.accounts) ]_vars

\* the added record the page loop stands at, and whether its account resolves
AtAdded == pc = "page" /\ step <= nAdded
CurrentAdded == delta.added[step]
Resolves(t) == get_account_id_by_plaid_account_id(conn, SyncUser, Item.id, t.account_id) # 0
\* the step taken met no fault injected by the environment
NoInjectedFault ==
    ~(Len(faults') = Len(faults) + 1 /\ faults'[Len(faults')].kind = "injected")

\* C7: an added record with pending id P and posted id Q on a resolvable account:
\* if a row P exists it is rewritten in place (one row for the pair, external id
\* Q, pending false, no row P left) and counted in tx_modified, not tx_added; if
\* no row P exists the record is upserted under Q and counted in tx_added.
C7_PendingToPosted ==
    [][ ( /\ AtAdded
          /\ CurrentAdded.pending_transaction_id # Null
          /\ Resolves(CurrentAdded)
          /\ NoInjectedFault )
        => LET p == CurrentAdded.pending_transaction_id
               q == CurrentAdded.transaction_id
           IN /\ conn'.open
              /\ IF RowsByExt(conn.txns, p) # {}
                 THEN /\ RowsByExt(conn'.txns, p) = {}
                      /\ Cardinality(RowsByExt(conn'.txns, q)) = 1
                      /\ \A r \in RowsByExt(conn'.txns, q) :
                            /\ ~r.pending
                            /\ \E o \in RowsByExt(conn.txns, p) : o.id = r.id
                      /\ tx_modified' = tx_modified + 1
                      /\ tx_added' = tx_added
                 ELSE /\ Cardinality(RowsByExt(conn'.txns, q)) = 1
                      /\ tx_added' = tx_added + 1
                      /\ tx_modified' = tx_modified ]_vars

\* C8: the committed store holds at most one non-deleted transaction row per
\* external id.
C8_OneLiveRowPerExternalId ==
    \A r1 \in db.txns : \A r2 \in db.txns :
        (r1.external_txn_id = r2.external_txn_id /\ r1.deleted_at = 0 /\ r2.deleted_at = 0) => r1 = r2

\* C8 witness: the posted id has a live row that an added report rewrote or
\* updated while the pending id has a row again (duplicated or reordered reports)
C8_Witness ==
    /\ \E r \in db.txns : r.external_txn_id = PostedId /\ r.deleted_at = 0
    /\ \E r \in db.txns : r.external_txn_id = PendingId /\ r.deleted_at = 0
    /\ \E r \in db.txns : r.external_txn_id = "X"

\* C9: in whatever order and however often the pending P and its posted
\* counterpart Q are reported, the store never holds one row under P and another
\* under Q.
C9_OneRowPerPendingPostedPair ==
    ~( /\ \E r \in db.txns : r.external_txn_id = PendingId
       /\ \E r \in db.txns : r.external_txn_id = PostedId )

\* C10: when a committed page soft-deleted the row of external id X and a later
\* page reports X as added on a resolvable account, then afterwards exactly one
\* row X exists, its deletion marker is cleared, and no row was created.
C10_ReAddUndeletes ==
    [][ ( /\ AtAdded
          /\ Resolves(CurrentAdded)
          /\ \E r \in db.txns : r.external_txn_id = CurrentAdded.transaction_id /\ r.deleted_at # 0
          /\ \E r \in conn.txns : r.external_txn_id = CurrentAdded.transaction_id /\ r.deleted_at # 0
          /\ NoInjectedFault )
        => /\ conn'.open
           /\ Cardinality(RowsByExt(conn'.txns, CurrentAdded.transaction_id)) = 1
           /\ \A r \in RowsByExt(conn'.txns, CurrentAdded.transaction_id) : r.deleted_at = 0
           /\ Cardinality(conn'.txns) = Cardinality(conn.txns) ]_vars

\* whether the account of record t resolves for the syncing user and item in a store
ResolvesIn(store, t) ==
    get_account_id_by_plaid_account_id(store, SyncUser, Item.id, t.account_id) # 0

\* the page in hand without the added records whose account does not resolve
DeltaOfResolvable ==
    [delta EXCEPT !.added = SelectSeq(delta.added, LAMBDA t : ResolvesIn(db, t))]

\* C11: an added record whose account cannot be resolved by (user, item, external
\* account id) creates no row, changes no row, raises no error and is not
\* counted; the rest of the page is processed and the page commits, cursor
\* included, exactly as the page without that record would.
C11_DefensiveSkip ==
    [][ /\ ( /\ AtAdded
             /\ ~Resolves(CurrentAdded)
             /\ NoInjectedFault )
           => /\ conn'.open
              /\ conn'.txns = conn.txns
              /\ tx_added' = tx_added
              /\ tx_modified' = tx_modified
              /\ faults' = faults
              /\ Len(results') = Len(results)
              /\ pc' = "page"
              /\ step' = step + 1
        /\ ( /\ pc = "page"
             /\ step = nAdded + nModified + 3
             /\ faults' = faults
             /\ \E n \in 1..nAdded : ~ResolvesIn(db, delta.added[n]) )
           => /\ db' = ProcessPage(db, SyncUser, Item.id, DeltaOfResolvable).store
              /\ \E st \in db'.sync : /\ st.plaid_item_id = Item.id
                                       /\ st.transactions_cursor = delta.next_cursor_out
      ]_vars

\* C11 witness: a page whose only added record is on another user's account was
\* committed: its modified record was applied and counted, its cursor is stored,
\* nothing was added and the other user's rows are as they were
C11_Witness ==
    /\ pc = "fetch"
    /\ Len(served) = 1
    /\ served[1].added = <<rU>>
    /\ tx_added = 0
    /\ tx_modified = 1
    /\ \E st \in db.sync : /\ st.plaid_item_id = Item.id
                            /\ st.transactions_cursor = served[1].next_cursor_out
    /\ InitialStore.txns \subseteq db.txns

\* the summaries produced so far are those of the first items, in enumeration order
SummariesInOrder ==
    /\ Len(results) <= Len(items)
    /\ \A k \in 1..Len(results) : results[k].plaid_item_id = items[k].item_id

\* the account phase of the item in hand has committed in this call
AccountPhaseCommitted ==
    /\ \E st \in db.sync : st.plaid_item_id = Item.id /\ st.accounts_last_synced_at = syncs
    /\ \A n \in 1..Len(accounts) :
          get_account_id_by_plaid_account_id(db, SyncUser, Item.id, accounts[n]) # 0

\* the order of the steps of a call in progress: item k is in hand only when the
\* summaries of items 1..k-1 exist; a page is requested only after the account
\* phase committed; a further page only after the page before it committed,
\* with that page's next_cursor
SequencingWhileRunning ==
    /\ outcome = "running" => (Len(results) = idx - 1 /\ SummariesInOrder)
    /\ pc \in {"fetch", "page"} => AccountPhaseCommitted
    /\ (pc = "fetch" /\ page >= 1)
       => /\ ~conn.open
          /\ Len(served) = page
          /\ next_cursor = served[page].next_cursor_out
          /\ ReturnedSyncState(db, Item.id).transactions_cursor = next_cursor

\* C12: sync_all_items_for_user produces exactly one summary per enumerated
\* item, in enumeration order, item k+1 is not started before the summary of
\* item k exists, no page is requested before the account phase committed, and
\* page n+1 is requested only after page n committed, with page n's next_cursor.
C12_StrictSequencing ==
    /\ SequencingWhileRunning
    /\ outcome \in {"returned", "raised_in_sync_item"}
       => (Len(results) = Len(items) /\ SummariesInOrder)

\* the stored cursors of a store, per item
StoredCursors(store) == { <<st.plaid_item_id, st.transactions_cursor>> : st \in store.sync }

\* the step taken ended sync_item with a summary carrying error code `code`
EndsWith(code) ==
    /\ Len(results') = Len(results) + 1
    /\ results'[Len(results')].error_code = code
    /\ results'[Len(results')].plaid_item_id = Item.item_id

\* C13: a failed account fetch ends sync_item with accounts_get_failed, a failed
\* account upsert or a failed commit of the account phase ends it with
\* accounts_upsert_failed; in both cases the invocation has requested no delta
\* page and leaves every transaction row and every stored cursor as it found them.
C13_AccountPhaseErrors ==
    [][ ( /\ pc \in {"get_accounts", "acct_upsert"}
          /\ Len(faults') = Len(faults) + 1 )
        => /\ pc = "get_accounts" => EndsWith("accounts_get_failed")
           /\ pc = "acct_upsert" => EndsWith("accounts_upsert_failed")
           /\ page = 0
           /\ delta = NoDelta
           /\ served = <<>>
           /\ results'[Len(results')].tx_added = 0
           /\ results'[Len(results')].tx_modified = 0
           /\ results'[Len(results')].tx_removed = 0
           /\ pc' \in {"idle", "get_accounts"}
           /\ db'.txns = entry.txns
           /\ StoredCursors(db') = StoredCursors(entry) ]_vars

\* C13 witness: a call whose account fetch failed, after an earlier call had
\* committed a page of the item: rows and a cursor to be left alone
C13_Witness ==
    /\ outcome = "returned"
    /\ Len(results) = 1
    /\ results[1].error_code = "accounts_get_failed"
    /\ \E st \in db.sync : st.transactions_cursor \in Cursors
    /\ \E r \in db.txns : r.original_payer_user_id = SyncUser

\* C14: the account phase is one unit of work: while it runs the committed store
\* is the one the invocation found, and when it fails, also after accounts of
\* the snapshot were upserted, the invocation leaves the account rows and the
\* SyncState rows exactly as it found them (no row created, no timestamp
\* refreshed).
C14_AccountPhaseAtomic ==
    [][ ( /\ pc \in {"acct_begin", "acct_upsert"}
          /\ pc' # "load_cursor" )
        => /\ db' = entry
           /\ EndsWith("accounts_upsert_failed") => conn' = NoConn ]_vars

\* C14 witness: the first account phase of the item failed after an account had
\* been upserted on the connection; the store has no account of the user and no
\* SyncState row
C14_Witness ==
    /\ outcome = "returned"
    /\ faults # <<>>
    /\ results[1].error_code = "accounts_upsert_failed"
    /\ results[1].accounts_upserted >= 1
    /\ db.sync = {}
    /\ db.accounts = InitialStore.accounts

\* the account rows of a store under the key (user, item, external account id)
AccountsByKey(store, user, item, ext) ==
    { a \in store.accounts :
        a.user_id = user /\ a.plaid_item_id = item /\ a.plaid_account_id = ext }

\* C15: account rows are keyed by (user, item, external account id): an upsert of
\* a key that has a row updates that one row and creates none, an upsert never
\* changes the user or the item of an existing row, and an account reported
\* under another user or item with the same external account id gets a row of
\* its own.
C15_AccountKey ==
    [][ ( /\ pc = "acct_upsert"
          /\ acct_i <= Len(accounts)
          /\ faults' = faults )
        => LET had == AccountsByKey(conn, SyncUser, Item.id, accounts[acct_i]) # {}
           IN /\ conn'.open
              /\ Cardinality(AccountsByKey(conn', SyncUser, Item.id, accounts[acct_i])) = 1
              /\ Cardinality(conn'.accounts)
                    = Cardinality(conn.accounts) + (IF had THEN 0 ELSE 1)
              /\ \A a \in conn.accounts : \E b \in conn'.accounts :
                    /\ b.id = a.id
                    /\ b.user_id = a.user_id
                    /\ b.plaid_item_id = a.plaid_item_id
                    /\ b.plaid_account_id = a.plaid_account_id ]_vars

\* the two pages of the scenario: added [A, B], then modified [B'] and removed [C]
ScenarioPage1 ==
    [added |-> <<rA, rB>>, modified |-> <<>>, removed |-> <<>>,
     next_cursor_out |-> "c1", has_more |-> TRUE]
ScenarioPage2 ==
    [added |-> <<>>, modified |-> <<mB>>, removed |-> <<"C">>,
     next_cursor_out |-> "c2", has_more |-> FALSE]

\* the invocation in hand found no stored cursor for its item and met no fault
FaultFreeFromNullCursor ==
    /\ faults = <<>>
    /\ faults' = faults
    /\ \A st \in entry.sync : st.plaid_item_id = Item.id => st.transactions_cursor = Null

\* the page in hand is being committed
AtCommit == pc = "page" /\ step = nAdded + nModified + 3

\* C16: an item with a null cursor and a snapshot of two accounts, page 1 =
\* (added [A, B], next_cursor c1, has_more) and page 2 = (modified [B'], removed
\* [C], next_cursor c2, no more): a fault-free invocation stores c1 after page 1
\* and c2 after page 2 and returns accounts_upserted 2, tx_added 2, tx_modified
\* 1, tx_removed 0 or 1, has_more false and no error code.
C16_EndToEndScenario ==
    [][ /\ ( /\ AtCommit
             /\ FaultFreeFromNullCursor
             /\ served = <<>>
             /\ delta = ScenarioPage1 )
           => /\ ReturnedSyncState(db', Item.id).transactions_cursor = "c1"
              /\ Cardinality(SyncRows(db', Item.id)) = 1
              /\ pc' = "fetch"
              /\ next_cursor' = "c1"
        /\ ( /\ AtCommit
             /\ FaultFreeFromNullCursor
             /\ served = <<ScenarioPage1>>
             /\ delta = ScenarioPage2 )
           => /\ ReturnedSyncState(db', Item.id).transactions_cursor = "c2"
              /\ Cardinality(SyncRows(db', Item.id)) = 1
              /\ Len(accounts) = 2
              /\ EndsWith("none")
              /\ \E tr \in {0, 1} :
                    results'[Len(results')] =
                        SyncSummary(Item.item_id, 2, 2, 1, tr, FALSE, "none") ]_vars

\* C16 witness: the invocation of the scenario has returned; A and B are stored
\* and B carries the modified amount
C16_Witness ==
    /\ outcome = "returned"
    /\ faults = <<>>
    /\ results = << SyncSummary("ext3", 2, 2, 1, 1, FALSE, "none") >>
    /\ \E st \in db.sync : st.plaid_item_id = "i3" /\ st.transactions_cursor = "c2"
    /\ \E r \in db.txns : r.external_txn_id = "A"
    /\ \E r \in db.txns : r.external_txn_id = "B" /\ r.amount = 4

\* whether a removed external id matches a transaction row on an account of the
\* syncing user, in the connection's view
MatchesRowOfUser(ext) ==
    \E r \in conn.txns :
        /\ r.external_txn_id = ext
        /\ \E a \in conn.accounts : a.id = r.account_id /\ a.user_id = SyncUser

\* C17: tx_removed counts the removed records that matched an existing row of
\* the user: a removed record contributes 1 when its external id matches such
\* a row and 0 when it matches none.
C17_RemovedCountsMatches ==
    [][ ( /\ pc = "page"
          /\ step = nAdded + nModified + 1
          /\ faults' = faults )
        => tx_removed' = tx_removed
              + Cardinality({ n \in 1..Len(delta.removed) : MatchesRowOfUser(delta.removed[n]) })
      ]_vars

\* signed provider amounts and category hints (None, the empty string, INCOME in
\* upper, lower and mixed case, alone and inside a longer string, and strings
\* that hold only part of it)
Amounts == (0 - MaxAmount)..MaxAmount
Hints ==
    { Null, <<>>, INCOME,
      <<"i", "n", "c", "o", "m", "e">>,
      <<"I", "n", "C", "o", "M", "e">>,
      <<"R", "E", "N", "T", "_", "I", "N", "C", "O", "M", "E", "S">>,
      <<"x", "i", "N", "c", "O", "m", "E">>,
      <<"I", "N", "C", "O", "M">>,
      <<"I", "N", "_", "C", "O", "M", "E">>,
      <<"i", "n", "c", "o", "m", "E", "_">>,
      <<"T", "R", "A", "N", "S", "F", "E", "R", "_", "I", "N">> }

\* the letter in either case
EitherCase(ch) ==
    {ch} \cup { Lower[k] : k \in { n \in 1..Len(Upper) : Upper[n] = ch } }

\* the hint holds the letters I, N, C, O, M, E in a row, each in either case
HoldsIncome(h) ==
    /\ h # Null
    /\ \E i \in 0..(Len(h) - Len(INCOME)) :
          \A j \in 1..Len(INCOME) : h[i + j] \in EitherCase(INCOME[j])

\* the stored amount and type the rule gives a signed amount a with hint h
ClassifiedAsClaimed(row, a, h) ==
    /\ row.amount >= 0
    /\ row.amount \in {a, 0 - a}
    /\ row.type = IF a > 0 THEN "debit"
                  ELSE IF a < 0 THEN "credit"
                  ELSE IF HoldsIncome(h) THEN "credit"
                  ELSE "debit"

\* the mapper classifies every amount and hint of the bounded sets as claimed
MapperClassifiesAsClaimed ==
    \A a \in Amounts : \A h \in Hints :
        ClassifiedAsClaimed(
            map_plaid_transaction_to_db_fields(1, Tx("T", Null, "a4", a, h, FALSE), SyncUser),
            a, h)

\* the step taken wrote the row of an added or relinked record, or the rows of a
\* modified record, with the amount and type claimed for the record
WrittenAsClaimed ==
    /\ ( /\ AtAdded
         /\ Resolves(CurrentAdded)
         /\ faults' = faults )
       => /\ RowsByExt(conn'.txns, CurrentAdded.transaction_id) # {}
          /\ \A r \in RowsByExt(conn'.txns, CurrentAdded.transaction_id) :
                ClassifiedAsClaimed(r, CurrentAdded.amount, CurrentAdded.pfc)
    /\ ( /\ pc = "page"
         /\ nAdded < step
         /\ step <= nAdded + nModified
         /\ faults' = faults )
       => \A r \in RowsByExt(conn'.txns, delta.modified[step - nAdded].transaction_id) :
             ClassifiedAsClaimed(r, delta.modified[step - nAdded].amount,
                                 delta.modified[step - nAdded].pfc)

\* C18: for every signed amount a the stored amount is |a| and the stored type
\* is debit if a > 0, credit if a < 0 and, for a = 0, credit exactly when the
\* category hint contains INCOME in any case, else debit; the rows written for
\* added, relinked and modified records carry that amount and type.
C18_Classification ==
    [][MapperClassifiesAsClaimed /\ WrittenAsClaimed]_vars

\* C18 witness: A (amount 0, hint Rent_Income) is stored as credit, B as debit with
\* the modified amount, and the pending C (a negative amount) was rewritten in place
\* to D (amount 0, hint income): credit
C18_Witness ==
    /\ outcome = "returned"
    /\ results = << SyncSummary("ext3", 2, 1, 1, 0, FALSE, "none") >>
    /\ \E r \in db.txns : r.external_txn_id = "A" /\ r.type = "credit" /\ r.amount = 0
    /\ \E r \in db.txns : r.external_txn_id = "B" /\ r.type = "debit" /\ r.amount = 4
    /\ \E r \in db.txns : r.external_txn_id = "D" /\ r.type = "credit" /\ r.amount = 0
    /\ RowsByExt(db.txns, "C") = {}

\* both callers are between the start and the end of sync_item for the item
BothInSyncItem == \A p \in Callers : calls[p].pc # "idle"

\* the place of a cursor in the provider's chain of pages
CursorRank(cursor) == IF cursor = Null THEN 0 ELSE IF cursor = "c1" THEN 1 ELSE 2

\* the stored cursor of the item, null when it has no SyncState row
StoredCursor(store, item) ==
    IF SyncRows(store, item) = {} THEN Null
    ELSE ReturnedSyncState(store, item).transactions_cursor

\* the stored cursor is never replaced by the cursor of an older page
CursorNeverGoesBack ==
    [][ CursorRank(StoredCursor(db', OverlapItem.id))
          >= CursorRank(StoredCursor(db, OverlapItem.id)) ]_vars

\* C19: an item is never synced by two invocations at once: no interleaving of
\* two overlapping calls of sync_all_items_for_user has both inside sync_item
\* for the same item, so the cursor a page stored is never overwritten by the
\* cursor of an older page.
C19_ItemNeverSyncedConcurrently ==
    /\ [][~BothInSyncItem']_vars
    /\ CursorNeverGoesBack

\* what a call of get_or_create_sync_state for the item made of the SyncState
\* rows: one row for the item; the row that existed, unchanged, or else a new
\* row with a null cursor and no timestamp; the rows of other items untouched
GetOrCreateAsClaimed(before, after) ==
    /\ Cardinality(SyncRows(after, OverlapItem.id)) = 1
    /\ IF SyncRows(before, OverlapItem.id) # {}
       THEN after.sync = before.sync
       ELSE /\ before.sync \subseteq after.sync
            /\ \A st \in SyncRows(after, OverlapItem.id) :
                  st.transactions_cursor = Null /\ st.accounts_last_synced_at = 0

\* C20: however many calls of get_or_create_sync_state are made for an item, one
\* after the other or by overlapping invocations, the item has exactly one
\* SyncState row afterwards: the first call creates it with a null cursor,
\* every later call returns the existing row and changes neither its cursor
\* nor its last-accounts-synced timestamp.
C20_GetOrCreateIdempotent ==
    [][ /\ Cardinality(SyncRows(db', OverlapItem.id)) <= 1
        /\ \A p \in Callers :
              /\ (calls[p].pc = "load_cursor" /\ calls'[p].pc = "fetch")
                 => GetOrCreateAsClaimed(db, db')
              /\ (calls[p].pc = "acct_begin" /\ calls'[p].pc = "acct_open")
                 => GetOrCreateAsClaimed(db, calls'[p].conn) ]_vars

\* C20 witness: while the first caller is in the middle of its second page, the
\* second caller's get_or_create_sync_state has returned the row the first one
\* created, with the cursor of the first caller's first page
C20_Witness ==
    /\ calls[1].pc = "page"
    /\ calls[1].next_cursor = "c1"
    /\ calls[2].pc = "fetch"
    /\ calls[2].next_cursor = "c1"
    /\ Cardinality(SyncRows(db, OverlapItem.id)) = 1

\* the account of transaction row r belongs to `user`
OwnedBy(c, r, user) == \E a \in c.accounts : a.id = r.account_id /\ a.user_id = user

\* the external ids of the removed delta of the page being processed
RemovedIds == { delta.removed[n] : n \in 1..Len(delta.removed) }

\* the step of the page body that runs the removed block
AtRemoved == pc = "page" /\ step = nAdded + nModified + 1

\* the removed block ran: the page body moved on to the cursor update
RemovedRan == AtRemoved /\ pc' = "page" /\ step' = step + 1

\* C21: the removed block of a sync for user U changes only transaction rows
\* whose account U owns: a row whose account belongs to another user is left as
\* it was, also when its external id is among the removed ids.
C21_RemovedScopedToUser ==
    [][ RemovedRan =>
          \A r \in conn.txns : ~OwnedBy(conn, r, SyncUser) => r \in conn'.txns ]_vars

\* C21 witness: the removed block has run for the ids Q and X; the user's row Q
\* is soft-deleted by it, the other user's row X is not
C21_Witness ==
    /\ pc = "page"
    /\ step = nAdded + nModified + 2
    /\ RemovedIds = {PostedId, "X"}
    /\ \E r \in conn.txns : /\ r.external_txn_id = PostedId
                             /\ OwnedBy(conn, r, SyncUser)
                             /\ r.deleted_at = conn.now
    /\ \E r \in conn.txns : /\ r.external_txn_id = "X"
                             /\ ~OwnedBy(conn, r, SyncUser)
                             /\ r.deleted_at = 0
                             /\ r \in db.txns

\* C22: the removed block leaves a row that is already soft-deleted as it was,
\* its deletion timestamp and its updated timestamp included, so that removing
\* an id a second time changes nothing in storage.
C22_RemoveAlreadyDeleted ==
    [][ RemovedRan =>
          \A r \in conn.txns :
              (r.external_txn_id \in RemovedIds /\ r.deleted_at # 0) => r \in conn'.txns ]_vars

\* the step of the page body that runs one round of `for t in modified`
AtModified == pc = "page" /\ nAdded < step /\ step <= nAdded + nModified

\* the round ran: the page body moved on
ModifiedRan == AtModified /\ pc' = "page" /\ step' = step + 1

CurrentModified == delta.modified[step - nAdded]

\* row `after` is row `before` with nothing but mutable fields changed
SameButMutableFields(before, after) ==
    /\ after.id = before.id
    /\ after.account_id = before.account_id
    /\ after.external_txn_id = before.external_txn_id
    /\ after.original_payer_user_id = before.original_payer_user_id
    /\ after.deleted_at = before.deleted_at

\* C23: a modified record never creates a row.  When no row has its external id
\* the statement changes nothing and raises nothing; when a row has it, only
\* mutable fields of that row change: its account, its external id and its
\* soft-delete marker stay, and so does every other row.
C23_ModifiedFrame ==
    [][ /\ ModifiedRan =>
            /\ Cardinality(conn'.txns) = Cardinality(conn.txns)
            /\ RowsByExt(conn.txns, CurrentModified.transaction_id) = {}
                  => conn'.txns = conn.txns
            /\ \A r \in conn.txns :
                  /\ \E r2 \in conn'.txns : SameButMutableFields(r, r2)
                  /\ r.external_txn_id # CurrentModified.transaction_id => r \in conn'.txns
        /\ (AtModified /\ pc' # "page") =>
            faults' = Append(faults, Fault("injected")) ]_vars

\* C23 witness: the modified report of Q has been applied to the row Q an
\* earlier page committed: amount and classification changed, the rest kept
C23_Witness ==
    /\ pc = "page"
    /\ nModified = 1
    /\ step = nAdded + 2
    /\ delta.modified[1] = mQ
    /\ \E r \in conn.txns, r0 \in db.txns :
          /\ r.external_txn_id = PostedId
          /\ r.amount = 5 /\ r.type = "credit"
          /\ r0.amount = 12 /\ r0.type = "debit"
          /\ SameButMutableFields(r0, r)

\* the commit of the account phase (line 68)
AccountPhaseCommits == pc = "acct_upsert" /\ pc' = "load_cursor"

\* C24: the commit that publishes the account upserts of an invocation also
\* publishes the item's SyncState row with its last-accounts-synced timestamp
\* set by this invocation, nothing of the account phase having been committed
\* before; this holds on the first sync of the item too, when the row did not
\* exist; and the row is there for the rest of the invocation.
C24_SyncStateRefreshedWithAccounts ==
    [][ /\ AccountPhaseCommits =>
            /\ db.accounts = entry.accounts /\ db.sync = entry.sync
            /\ \A n \in 1..Len(accounts) :
                  \E a \in db'.accounts : a.plaid_account_id = accounts[n]
            /\ Cardinality(SyncRows(db', Item.id)) = 1
            /\ \A s \in SyncRows(db', Item.id) : s.accounts_last_synced_at = syncs
            /\ \A s \in SyncRows(db, Item.id) : s.accounts_last_synced_at < syncs
        /\ pc' \in {"load_cursor", "fetch", "page"} =>
            \E s \in SyncRows(db', items'[idx'].id) : s.accounts_last_synced_at = syncs' ]_vars

\* C24 witness: the account phase of the first sync of the item has committed:
\* no SyncState row existed when sync_item was entered, and now the row and the
\* accounts of the snapshot are in the store
C24_Witness ==
    /\ pc = "load_cursor"
    /\ entry.sync = {}
    /\ \A n \in 1..Len(accounts) : \E a \in db.accounts : a.plaid_account_id = accounts[n]
    /\ \A a \in db.accounts : a.user_id = SyncUser => a \notin entry.accounts
    /\ \E s \in SyncRows(db, Item.id) :
          s.accounts_last_synced_at = syncs /\ s.transactions_cursor = Null

\* sync_item returns a summary in this step, and the summary it returns
SummaryReturned == Len(results') = Len(results) + 1
ReturnedSummary == results'[Len(results')]

\* the continuation flag of the last page the provider returned to the
\* invocation that is about to end: the page being processed, or else the last
\* page committed, or FALSE when no page was returned
LastObservedHasMore ==
    IF pc = "page" THEN delta.has_more
    ELSE IF pc = "fetch" /\ Len(served) > 0 THEN served[Len(served)].has_more
    ELSE FALSE

\* C25: the has_more of a summary is the continuation flag of the last page the
\* provider returned in the invocation (FALSE if it returned none), whether the
\* invocation ended normally, with a provider error on a later page request or
\* with a failure while that page was processed; and a summary without an
\* error code has has_more = FALSE.
C25_HasMoreOfLastPage ==
    [][ SummaryReturned =>
          /\ ReturnedSummary.has_more = LastObservedHasMore
          /\ ReturnedSummary.error_code = "none" => ~ReturnedSummary.has_more ]_vars

\* sync_item is inside `while True` (lines 108-228)
InLoop == pc \in {"fetch", "page"}

\* a fault is reported in this step
FaultReported == Len(faults') = Len(faults) + 1

\* the page being processed commits in this step
PageCommits == AtCommit /\ ~FaultReported

\* C26: sync_item terminates when the provider's chain of has_more pages is
\* finite or a fault occurs, and sync_all_items_for_user terminates for its
\* finite list of items: a call that is running ends, and every item's
\* sync_item is left.  The delta loop is left exactly when a committed page has
\* has_more = FALSE or a fault is reported.
C26_Termination ==
    /\ (pc # "idle") ~> (pc = "idle")
    /\ \A i \in 1..2 : (pc # "idle" /\ idx = i) ~> (pc = "idle" \/ idx # i)
    /\ [][ InLoop =>
             (~InLoop' <=> (FaultReported \/ (PageCommits /\ ~delta.has_more))) ]_vars

\* C26 witness: the call has returned after its second item's loop ran two
\* pages, the first with has_more = TRUE, and was left at the second
C26_Witness ==
    /\ pc = "idle"
    /\ outcome = "returned"
    /\ Len(results) = 2
    /\ results[2].error_code = "none"
    /\ results[2].tx_added = 1
    /\ results[2].tx_removed = 1
    /\ ~results[2].has_more

\* the page being processed fails in this step although no fault was injected:
\* a statement of its body was rejected by the database
PageFailsUninjected ==
    /\ pc = "page"
    /\ FaultReported
    /\ faults'[Len(faults')].kind = "integrity"

\* C27: without injected faults every finite chain of pages is worked off by
\* repeated invocations, whatever duplicated or reordered added records it
\* holds: a page that failed is committed when the next invocation is served
\* it again from the stored cursor, on the store the failure left (the failed
\* page was rolled back, so a page that fails then fails on every retry).
C27_ProgressWithoutFaults ==
    [][ PageFailsUninjected => ProcessPage(db', SyncUser, Item.id, delta).ok ]_vars

\* a statement of the added or the modified loop ran in this step
AddedOrModifiedRan == pc = "page" /\ step <= nAdded + nModified /\ pc' = "page"

\* C28: whatever external ids the added and modified records of a sync for user
\* U carry, the statements run for them (upsert, relink, update) leave every
\* transaction row whose account belongs to another user as it was: fields,
\* external id, account and deletion marker.
C28_CrossUserIsolation ==
    [][ AddedOrModifiedRan =>
          \A r \in conn.txns : ~OwnedBy(conn, r, SyncUser) => r \in conn'.txns ]_vars

\* the posted records among the added records of the page being processed
\* whose account resolves and whose id the page does not also remove
PostedAdded ==
    { delta.added[n] : n \in { k \in 1..nAdded :
        /\ ~delta.added[k].pending
        /\ Resolves(delta.added[k])
        /\ delta.added[k].transaction_id \notin RemovedIds } }

\* C29: when a page that holds an added posted record Q on a resolvable account
\* is committed, the store holds a row with external id Q that is not
\* soft-deleted, also when that row is the pending row P of an earlier page,
\* soft-deleted in between and now relinked to Q.
C29_PostedRowIsLive ==
    [][ PageCommits =>
          \A t \in PostedAdded :
              \E r \in db'.txns : r.external_txn_id = t.transaction_id /\ r.deleted_at = 0 ]_vars

\* the enumeration of the user's items fails in this step
EnumerationFails == pc = "idle" /\ faults' = <<Fault("injected")>>

\* C30: when the enumeration of the user's items fails, the call raises to its
\* caller and nothing else happens: no summary is produced, no item is entered
\* (so no provider call is made) and no row of the store changes; whatever is
\* synced afterwards is synced by a later call.
C30_EnumerationFailureIsHard ==
    [][ /\ EnumerationFails =>
            /\ outcome' = "raised_in_enumerate"
            /\ results' = <<>>
            /\ pc' = "idle"
            /\ db' = db
            /\ conn' = conn
        /\ (outcome = "raised_in_enumerate" /\ pc' # "idle") => syncs' = syncs + 1 ]_vars

\* C30 witness: a call failed to enumerate the items after an earlier call had
\* synced the item: it raised, with no summary, and the store is as that
\* earlier call left it
C30_Witness ==
    /\ outcome = "raised_in_enumerate"
    /\ syncs > 1
    /\ pc = "idle"
    /\ results = <<>>
    /\ faults = <<[idx |-> idx, at |-> "idle", step |-> step, kind |-> "injected"]>>
    /\ db = entry
    /\ db.txns # InitialStore.txns

====
